---- MODULE Spec2Model ----
(***************************************************************************)
(* MQTTClientWrapper of src/broker/mqtt_client.py: the connection state    *)
(* machine, the offline message queue with its worker thread, the          *)
(* subscription stores and the reconnection loop.                          *)
(*                                                                         *)
(* Threads of the program:                                                 *)
(*   - a caller thread that runs connect() and disconnect() (cpc);         *)
(*   - callers of publish(), subscribe(), unsubscribe() (one step each);   *)
(*   - the transport's network thread, started by loop_start(), on which   *)
(*     _on_connect and _on_disconnect run one at a time (net);             *)
(*     _on_disconnect calls _handle_reconnect on that same thread;         *)
(*   - the queue worker threads running _process_queue (wpc).              *)
(* The transport (the paho client object) is the environment: tr is the    *)
(* state of its session with the broker.                                   *)
(***************************************************************************)
EXTENDS Integers, Sequences, FiniteSets, TLC

\* ------------------------------------------------------------- bounds
\* config.queue_size, config.message_timeout (clock ticks),
\* config.reconnect_delay, config.max_reconnect_delay of the modelled client
QueueSize == 2
MessageTimeout == 1
ReconnectDelay == 1
MaxReconnectDelay == 3
\* the clock stops at MaxTime; at most MaxMsgs publish calls; the errors
\* counter is followed up to MaxErrors; the waits of a backoff episode are
\* recorded up to MaxWaits; at most MaxWorkers worker threads alive at once;
\* at most MaxSubs subscribe calls
MaxTime == 2
MaxMsgs == 3
MaxErrors == 1
MaxWaits == 4
MaxWorkers == 1
MaxSubs == 2
\* SpecTTL follows at most TtlMsgs publish calls
TtlMsgs == 1
\* _topic_matches is called on patterns of up to MaxLevels levels and topics
\* of up to MaxLevels + 1 levels
MaxLevels == 3
\* at most MaxInbound inbound messages
MaxInbound == 2

VARIABLES
    config,              \* MQTTConfig: the fields the client reads
    state,               \* self.state (ConnectionState)
    connected,           \* self.connected
    subscriptions,       \* self.subscriptions: dict, in insertion order
    wildcard_callbacks,  \* self.wildcard_callbacks: list of (pattern, callback)
    message_queue,       \* self.message_queue: FIFO of QueuedMessage
    queue_thread,        \* self.queue_thread: 0 (None) or a worker thread
    queue_running,       \* self.queue_running
    stats,               \* self.stats
    cpc,                 \* where the caller thread is in connect()/disconnect()
    net,                 \* the network thread: stopped, idle, or in _handle_reconnect
    delay,               \* the local delay of _handle_reconnect
    tr,                  \* the transport's session with the broker
    wpc,                 \* each worker thread's place in _process_queue
    wmsg,                \* the message each worker thread holds
    now,                 \* time.time(), in ticks
    next_id,             \* the number of the next publish call
    sent,                \* the worker's sends the transport accepted, in order
    dropped,             \* the messages the worker dropped as too old
    lost,                \* the messages the worker held when its send raised
    publish_result,      \* what the last publish() did and returned
    enqueue_returned,    \* the values publish() returned after a successful enqueue
    waits,               \* the sleeps of the current backoff episode, in order
    attempts,            \* the client.reconnect() calls of the current episode
    count_at_entry,      \* stats.reconnect_count when the episode began
    registered,          \* the patterns registered, in order of registration
    n_subscribes,        \* the number of subscribe calls made
    replayed,            \* the subscribe requests of this connection's _resubscribe_all
    replay_of,           \* the registration order when that replay ran
    replay_raised,       \* whether the transport raised during that replay
    subscribe_result,    \* what the last subscribe() did and returned
    unsubscribe_result,  \* what the last unsubscribe() did and returned
    inbound,             \* what the last _on_message did
    matched,             \* a call of _topic_matches: its arguments and its result
    snapshot,            \* the dict the last get_stats() returned, as its caller has it
    tally,               \* the sends the transport accepted and the enqueues that succeeded
    wload                \* the counter value each worker thread read for its += 1

vars == <<config, state, connected, subscriptions, wildcard_callbacks,
          message_queue, queue_thread, queue_running, stats, cpc,
          net, delay, tr, wpc, wmsg, now, next_id, sent,
          dropped, lost, publish_result, enqueue_returned, waits, attempts,
          count_at_entry, registered, n_subscribes, replayed, replay_of,
          replay_raised, subscribe_result, unsubscribe_result, inbound,
          matched, snapshot, tally, wload>>

conn_vars == <<state, connected, cpc, net, delay, tr,
               waits, attempts, count_at_entry>>
queue_vars == <<message_queue, wmsg, next_id, sent, dropped, lost,
                publish_result, enqueue_returned>>
worker_vars == <<queue_thread, queue_running, wpc>>
sub_vars == <<subscriptions, wildcard_callbacks, registered, n_subscribes,
              subscribe_result, unsubscribe_result>>
replay_vars == <<replayed, replay_of, replay_raised>>
inbound_vars == <<inbound, matched>>
count_vars == <<tally, wload>>

\* ------------------------------------------------------------- values
ConnectionState == {"disconnected", "connecting", "connected", "reconnecting", "error"}

\* the worker threads that can exist: those the client was given room for
Workers == DOMAIN wpc
\* the names of worker threads
WorkerIds == 1..(MaxWorkers + 1)
NoMessage == [id |-> 0, timestamp |-> 0, age |-> 0]

\* no message received yet
NoInbound == [n |-> 0, topic |-> <<>>, decoded |-> FALSE, payload |-> "none",
              calls |-> <<>>, escaped |-> FALSE, raised_before |-> FALSE]

\* unsubscribe not called, or its pattern subscribed again since
NoUnsubscribe == [called |-> FALSE, topic |-> <<>>, absent |-> FALSE,
                  connected |-> FALSE, value |-> FALSE, issued |-> FALSE]

\* get_stats not called
NoSnapshot == [called |-> FALSE, alias |-> FALSE, modified |-> FALSE, value |-> <<>>]

\* _topic_matches not called
NoMatch == [topic |-> <<>>, pattern |-> <<>>, called |-> FALSE, result |-> FALSE]

Min(a, b) == IF a < b THEN a ELSE b

MQTTConfig(auto) ==
    [auto_reconnect |-> auto,
     reconnect_delay |-> ReconnectDelay,
     max_reconnect_delay |-> MaxReconnectDelay,
     queue_size |-> QueueSize,
     message_timeout |-> MessageTimeout]

\* self.stats[key] += 1
Bump(key) == [stats EXCEPT ![key] = @ + 1]

\* ---------------------------------------------------------------- Init
\* the client after __init__, with room for the given number of worker
\* threads alive at once
InitWithWorkers(n) ==
    /\ config \in {MQTTConfig(auto) : auto \in BOOLEAN}
    /\ state = "disconnected"
    /\ connected = FALSE
    /\ subscriptions = <<>>
    /\ wildcard_callbacks = <<>>
    /\ message_queue = <<>>
    /\ queue_thread = 0
    /\ queue_running = FALSE
    /\ stats = [messages_sent |-> 0, messages_received |-> 0,
                messages_queued |-> 0, reconnect_count |-> 0, errors |-> 0]
    /\ cpc = "idle"
    /\ net = "stopped"
    /\ delay = 0
    /\ tr = "closed"
    /\ wpc = [w \in 1..n |-> "none"]
    /\ wmsg = [w \in 1..n |-> NoMessage]
    /\ now = 0
    /\ next_id = 1
    /\ sent = <<>>
    /\ dropped = {}
    /\ lost = {}
    /\ publish_result = [called |-> FALSE, connected |-> FALSE, value |-> FALSE, outcome |-> "none"]
    /\ enqueue_returned = {}
    /\ waits = <<>>
    /\ attempts = 0
    /\ count_at_entry = 0
    /\ registered = <<>>
    /\ n_subscribes = 0
    /\ replayed = <<>>
    /\ replay_of = <<>>
    /\ replay_raised = FALSE
    /\ subscribe_result = [called |-> FALSE, connected |-> FALSE,
                           value |-> FALSE, issued |-> FALSE,
                           topic |-> <<>>, qos |-> 0]
    /\ unsubscribe_result = NoUnsubscribe
    /\ inbound = NoInbound
    /\ snapshot = NoSnapshot
    /\ tally = [accepted |-> 0, enqueued |-> 0]
    /\ wload = [w \in 1..n |-> 0]

InitClient == InitWithWorkers(MaxWorkers)

Init ==
    /\ InitClient
    /\ matched = NoMatch

\* ------------------------------------------------- the queue processor
\* _start_queue_processor: a new thread unless queue_running is set
FreeWorker == CHOOSE w \in Workers : wpc[w] = "none" /\ \A v \in Workers : wpc[v] = "none" => w <= v

CanStartQueueProcessor == queue_running \/ \E w \in Workers : wpc[w] = "none"

_start_queue_processor ==
    IF queue_running
    THEN UNCHANGED worker_vars
    ELSE /\ queue_running' = TRUE
         /\ queue_thread' = FreeWorker
         /\ wpc' = [wpc EXCEPT ![FreeWorker] = "loop"]

\* a stop that leaves the flag set
_stop_queue_processor_keeps_flag ==
    UNCHANGED worker_vars

\* _stop_queue_processor: clears the flag; the join gives up after 2 s, so
\* the thread may still be alive when it returns
_stop_queue_processor ==
    /\ queue_running' = FALSE
    /\ UNCHANGED <<queue_thread, wpc>>

\* ------------------------------------------------------------ connect()
\* a connect() without the test of self.connected
connect_enter_unchecked ==
    /\ cpc = "idle"
    /\ state' = "connecting"
    /\ cpc' = "connect_call"
    /\ UNCHANGED <<config, connected, stats, net, delay, tr, now, waits,
                   attempts, count_at_entry>>
    /\ UNCHANGED <<queue_vars, worker_vars, sub_vars, replay_vars, inbound_vars, snapshot, count_vars>>

\* the first lines under the lock: already connected, or CONNECTING
connect_enter ==
    /\ cpc = "idle"
    /\ IF connected
       THEN UNCHANGED <<state, cpc>>
       ELSE /\ state' = "connecting"
            /\ cpc' = "connect_call"
    /\ UNCHANGED <<config, connected, stats, net, delay, tr, now, waits,
                   attempts, count_at_entry>>
    /\ UNCHANGED <<queue_vars, worker_vars, sub_vars, replay_vars, inbound_vars, snapshot, count_vars>>

\* client.connect() raises: the except branch
connect_raises ==
    /\ cpc = "connect_call"
    /\ stats.errors < MaxErrors
    /\ state' = "error"
    /\ stats' = Bump("errors")
    /\ cpc' = "idle"
    /\ UNCHANGED <<config, connected, net, delay, tr, now, waits, attempts,
                   count_at_entry>>
    /\ UNCHANGED <<queue_vars, worker_vars, sub_vars, replay_vars, inbound_vars, snapshot, count_vars>>

\* client.connect() opens the socket and sends CONNECT; loop_start() starts
\* the network thread unless one exists
connect_call ==
    /\ cpc = "connect_call"
    /\ tr' = "connecting"
    /\ net' = IF net = "stopped" THEN "idle" ELSE net
    /\ cpc' = "connect_wait"
    /\ UNCHANGED <<config, state, connected, stats, delay,
                   now, waits, attempts, count_at_entry>>
    /\ UNCHANGED <<queue_vars, worker_vars, sub_vars, replay_vars, inbound_vars, snapshot, count_vars>>

\* the polling loop sees self.connected
connect_wait_connected ==
    /\ cpc = "connect_wait"
    /\ connected
    /\ cpc' = "idle"
    /\ UNCHANGED <<config, state, connected, stats, net, delay, tr, now,
                   waits, attempts, count_at_entry>>
    /\ UNCHANGED <<queue_vars, worker_vars, sub_vars, replay_vars, inbound_vars, snapshot, count_vars>>

\* the 10 s pass without self.connected
connect_wait_timeout ==
    /\ cpc = "connect_wait"
    /\ ~connected
    /\ cpc' = "idle"
    /\ UNCHANGED <<config, state, connected, stats, net, delay, tr, now,
                   waits, attempts, count_at_entry>>
    /\ UNCHANGED <<queue_vars, worker_vars, sub_vars, replay_vars, inbound_vars, snapshot, count_vars>>

\* --------------------------------------------------------- disconnect()
\* self._stop_queue_processor()
disconnect_enter ==
    /\ cpc = "idle"
    /\ _stop_queue_processor
    /\ cpc' = "disconnect_loop_stop"
    /\ UNCHANGED <<config, state, connected, stats, net,
                   delay, tr, now, waits, attempts, count_at_entry>>
    /\ UNCHANGED <<queue_vars, sub_vars, replay_vars, inbound_vars, snapshot, count_vars>>

\* client.loop_stop() joins the network thread: it returns once that thread
\* is in no callback
disconnect_loop_stop ==
    /\ cpc = "disconnect_loop_stop"
    /\ net \in {"idle", "stopped"}
    /\ net' = "stopped"
    /\ cpc' = "disconnect_finish"
    /\ UNCHANGED <<config, state, connected, stats, delay,
                   tr, now, waits, attempts, count_at_entry>>
    /\ UNCHANGED <<queue_vars, worker_vars, sub_vars, replay_vars, inbound_vars, snapshot, count_vars>>

\* a disconnect() that also empties the queue and the two stores
disconnect_finish_clearing ==
    /\ cpc = "disconnect_finish"
    /\ tr' = "closed"
    /\ connected' = FALSE
    /\ state' = "disconnected"
    /\ IF tr # "closed" THEN _stop_queue_processor ELSE UNCHANGED worker_vars
    /\ cpc' = "idle"
    /\ replayed' = <<>>
    /\ replay_of' = <<>>
    /\ replay_raised' = FALSE
    /\ message_queue' = <<>>
    /\ subscriptions' = <<>>
    /\ wildcard_callbacks' = <<>>
    /\ registered' = <<>>
    /\ UNCHANGED <<config, stats, net, delay, now, waits,
                   attempts, count_at_entry>>
    /\ UNCHANGED <<wmsg, next_id, sent, dropped, lost, publish_result,
                   enqueue_returned, n_subscribes, subscribe_result,
                   unsubscribe_result, inbound_vars, snapshot, count_vars>>

\* client.disconnect(), then connected = False and DISCONNECTED under the
\* lock. The transport reports its own close through _on_disconnect(rc = 0)
\* on this thread, which sets the same two fields and stops the processor.
disconnect_finish ==
    /\ cpc = "disconnect_finish"
    /\ tr' = "closed"
    /\ connected' = FALSE
    /\ state' = "disconnected"
    /\ IF tr # "closed" THEN _stop_queue_processor ELSE UNCHANGED worker_vars
    /\ cpc' = "idle"
    /\ replayed' = <<>>
    /\ replay_of' = <<>>
    /\ replay_raised' = FALSE
    /\ UNCHANGED <<config, stats, net, delay, now, waits,
                   attempts, count_at_entry>>
    /\ UNCHANGED <<queue_vars, sub_vars, inbound_vars, snapshot, count_vars>>

\* ------------------------------------------------------ _resubscribe_all
\* the two loops the other way round
_resubscribe_all_wildcards_first(subs, wilds) ==
    [i \in 1..Len(wilds) |-> [topic |-> wilds[i].topic, qos |-> 1]]
    \o [i \in 1..Len(subs) |-> [topic |-> subs[i].topic, qos |-> subs[i].qos]]

\* the (topic, qos) requests of one replay, in the order of the two loops:
\* the dict's items, then the wildcard list (always with qos 1)
_resubscribe_all(subs, wilds) ==
    [i \in 1..Len(subs) |-> [topic |-> subs[i].topic, qos |-> subs[i].qos]]
    \o [i \in 1..Len(wilds) |-> [topic |-> wilds[i].topic, qos |-> 1]]

\* ------------------------------------------- the network thread's callbacks
\* the broker answers the CONNECT the transport sent
broker_responds(accept) ==
    /\ tr = "connecting"
    /\ tr' = IF accept THEN "acked_ok" ELSE "acked_refused"
    /\ UNCHANGED <<config, state, connected, stats, cpc, net,
                   delay, now, waits, attempts, count_at_entry>>
    /\ UNCHANGED <<queue_vars, worker_vars, sub_vars, replay_vars, inbound_vars, snapshot, count_vars>>

\* the connection to the broker breaks
link_lost ==
    /\ tr \in {"connecting", "acked_ok", "acked_refused", "up"}
    /\ tr' = "lost"
    /\ UNCHANGED <<config, state, connected, stats, cpc, net,
                   delay, now, waits, attempts, count_at_entry>>
    /\ UNCHANGED <<queue_vars, worker_vars, sub_vars, replay_vars, inbound_vars, snapshot, count_vars>>

\* _on_connect with rc = 0. The transport takes the first k requests of the
\* replay; when it raises on the next one the exception leaves the handler
\* before _start_queue_processor.
_on_connect_accepted ==
    /\ net = "idle"
    /\ tr = "acked_ok"
    /\ CanStartQueueProcessor
    /\ connected' = TRUE
    /\ state' = "connected"
    /\ tr' = "up"
    /\ LET requests == _resubscribe_all(subscriptions, wildcard_callbacks)
       IN \E k \in 0..Len(requests) :
            /\ replayed' = SubSeq(requests, 1, k)
            /\ replay_of' = registered
            /\ replay_raised' = (k < Len(requests))
            /\ IF k = Len(requests)
               THEN _start_queue_processor
               ELSE UNCHANGED worker_vars
    /\ UNCHANGED <<config, stats, cpc, net, delay, now,
                   waits, attempts, count_at_entry>>
    /\ UNCHANGED <<queue_vars, sub_vars, inbound_vars, snapshot, count_vars>>

\* _on_connect with rc # 0
_on_connect_refused ==
    /\ net = "idle"
    /\ tr = "acked_refused"
    /\ stats.errors < MaxErrors
    /\ connected' = FALSE
    /\ state' = "error"
    /\ stats' = Bump("errors")
    /\ tr' = "closed"
    /\ UNCHANGED <<config, cpc, net, delay, now, waits,
                   attempts, count_at_entry>>
    /\ UNCHANGED <<queue_vars, worker_vars, sub_vars, replay_vars, inbound_vars, snapshot, count_vars>>

\* an _on_disconnect that calls _handle_reconnect whatever auto_reconnect is
_on_disconnect_always_reconnects ==
    /\ net = "idle"
    /\ tr = "lost"
    /\ tr' = "closed"
    /\ connected' = FALSE
    /\ state' = "reconnecting"
    /\ _stop_queue_processor
    /\ IF TRUE
       THEN /\ stats' = Bump("reconnect_count")
            /\ delay' = config.reconnect_delay
            /\ net' = "reconnect_loop"
            /\ waits' = <<>>
            /\ attempts' = 0
            /\ count_at_entry' = stats.reconnect_count
       ELSE UNCHANGED <<stats, delay, net, waits, attempts, count_at_entry>>
    /\ replayed' = <<>>
    /\ replay_of' = <<>>
    /\ replay_raised' = FALSE
    /\ UNCHANGED <<config, cpc, now>>
    /\ UNCHANGED <<queue_vars, sub_vars, inbound_vars, snapshot, count_vars>>

\* _on_disconnect with rc # 0, up to the first lines of _handle_reconnect
_on_disconnect ==
    /\ net = "idle"
    /\ tr = "lost"
    /\ tr' = "closed"
    /\ connected' = FALSE
    /\ state' = "reconnecting"
    /\ _stop_queue_processor
    /\ IF config.auto_reconnect
       THEN /\ stats' = Bump("reconnect_count")
            /\ delay' = config.reconnect_delay
            /\ net' = "reconnect_loop"
            /\ waits' = <<>>
            /\ attempts' = 0
            /\ count_at_entry' = stats.reconnect_count
       ELSE UNCHANGED <<stats, delay, net, waits, attempts, count_at_entry>>
    /\ replayed' = <<>>
    /\ replay_of' = <<>>
    /\ replay_raised' = FALSE
    /\ UNCHANGED <<config, cpc, now>>
    /\ UNCHANGED <<queue_vars, sub_vars, inbound_vars, snapshot, count_vars>>

\* -------------------------------------------------- _handle_reconnect
\* delay = min(delay * 2, self.config.max_reconnect_delay)
NextDelay(d) == Min(d * 2, config.max_reconnect_delay)

\* the while condition, then time.sleep(delay)
reconnect_sleep ==
    /\ net = "reconnect_loop"
    /\ IF config.auto_reconnect /\ ~connected
       THEN /\ net' = "reconnect_try"
            /\ waits' = IF Len(waits) < MaxWaits THEN Append(waits, delay) ELSE waits
       ELSE /\ net' = "idle"
            /\ UNCHANGED waits
    /\ UNCHANGED <<config, state, connected, stats, cpc, 
                   delay, tr, now, attempts, count_at_entry>>
    /\ UNCHANGED <<queue_vars, worker_vars, sub_vars, replay_vars, inbound_vars, snapshot, count_vars>>

\* client.reconnect() raises: continue, past the line that doubles the delay
reconnect_raises ==
    /\ net = "reconnect_try"
    /\ tr' = "closed"
    /\ attempts' = Min(attempts + 1, MaxWaits)
    /\ net' = "reconnect_loop"
    /\ UNCHANGED <<config, state, connected, stats, cpc, 
                   delay, now, waits, count_at_entry>>
    /\ UNCHANGED <<queue_vars, worker_vars, sub_vars, replay_vars, inbound_vars, snapshot, count_vars>>

\* client.reconnect() returns: a new socket, CONNECT sent; the delay doubles
reconnect_call ==
    /\ net = "reconnect_try"
    /\ tr' = "connecting"
    /\ attempts' = Min(attempts + 1, MaxWaits)
    /\ delay' = NextDelay(delay)
    /\ net' = "reconnect_loop"
    /\ UNCHANGED <<config, state, connected, stats, cpc, 
                   now, waits, count_at_entry>>
    /\ UNCHANGED <<queue_vars, worker_vars, sub_vars, replay_vars, inbound_vars, snapshot, count_vars>>

\* ---------------------------------------------------------------- time
Tick ==
    /\ now < MaxTime
    /\ now' = now + 1
    /\ UNCHANGED <<config, stats>>
    /\ UNCHANGED <<conn_vars, queue_vars, worker_vars, sub_vars, replay_vars, inbound_vars, snapshot, count_vars>>

\* ------------------------------------------------------------- publish()
\* a queue that takes one message more than maxsize
FullLate(q) == Len(q) > config.queue_size

\* Queue.put_nowait raises Full
Full(q) == Len(q) >= config.queue_size

\* a publish that reports an enqueue as a delivery
_queue_message_returns_true(id) ==
    IF Full(message_queue)
    THEN /\ UNCHANGED <<message_queue, stats, tally>>
         /\ publish_result' = [called |-> TRUE, connected |-> connected,
                               value |-> FALSE, outcome |-> "full"]
         /\ UNCHANGED enqueue_returned
    ELSE /\ message_queue' = Append(message_queue, [id |-> id, timestamp |-> now])
         /\ stats' = Bump("messages_queued")
         /\ tally' = [tally EXCEPT !.enqueued = @ + 1]
         /\ publish_result' = [called |-> TRUE, connected |-> connected,
                               value |-> TRUE, outcome |-> "queued"]
         /\ enqueue_returned' = enqueue_returned \cup {TRUE}

\* _queue_message: the put and the counter, or the except branch that logs
_queue_message(id) ==
    IF Full(message_queue)
    THEN /\ UNCHANGED <<message_queue, stats, tally>>
         /\ publish_result' = [called |-> TRUE, connected |-> connected,
                               value |-> FALSE, outcome |-> "full"]
         /\ UNCHANGED enqueue_returned
    ELSE /\ message_queue' = Append(message_queue, [id |-> id, timestamp |-> now])
         /\ stats' = Bump("messages_queued")
         /\ tally' = [tally EXCEPT !.enqueued = @ + 1]
         /\ publish_result' = [called |-> TRUE, connected |-> connected,
                               value |-> FALSE, outcome |-> "queued"]
         /\ enqueue_returned' = enqueue_returned \cup {FALSE}

\* publish(): serializable is whether json.dumps/str of the payload returns;
\* accepted is whether the transport's publish returns MQTT_ERR_SUCCESS
publish ==
    /\ next_id <= MaxMsgs
    /\ next_id' = next_id + 1
    /\ \E serializable \in BOOLEAN, accepted \in BOOLEAN :
        IF ~serializable
        THEN /\ stats.errors < MaxErrors
             /\ stats' = Bump("errors")
             /\ publish_result' = [called |-> TRUE, connected |-> connected,
                                   value |-> FALSE, outcome |-> "error"]
             /\ UNCHANGED <<message_queue, enqueue_returned, tally>>
        ELSE IF connected /\ accepted /\ tr = "up"
        THEN /\ stats' = Bump("messages_sent")
             /\ tally' = [tally EXCEPT !.accepted = @ + 1]
             /\ publish_result' = [called |-> TRUE, connected |-> connected,
                                   value |-> TRUE, outcome |-> "sent"]
             /\ UNCHANGED <<message_queue, enqueue_returned>>
        ELSE _queue_message(next_id)
    /\ UNCHANGED <<config, now, wmsg, sent, dropped, lost, wload>>
    /\ UNCHANGED <<conn_vars, worker_vars, sub_vars, replay_vars, inbound_vars, snapshot>>

\* -------------------------------------------------------- _process_queue
\* the age check one tick late
TooOldLate(age) == age > config.message_timeout + 1

\* age > self.config.message_timeout
TooOld(age) == age > config.message_timeout

\* self.message_queue.put(message) of the two "put back" branches
PutBack(q, m) == Append(q, [id |-> m.id, timestamp |-> m.timestamp])

\* while self.queue_running
worker_loop(w) ==
    /\ w \in Workers
    /\ wpc[w] = "loop"
    /\ wpc' = [wpc EXCEPT ![w] = IF queue_running THEN "get" ELSE "none"]
    /\ UNCHANGED <<config, stats, now, queue_thread, queue_running>>
    /\ UNCHANGED <<conn_vars, queue_vars, sub_vars, replay_vars, inbound_vars, snapshot, count_vars>>

\* message_queue.get(timeout=1): Empty and continue, or a message and the
\* age check
worker_get(w) ==
    /\ w \in Workers
    /\ wpc[w] = "get"
    /\ IF message_queue = <<>>
       THEN /\ wpc' = [wpc EXCEPT ![w] = "loop"]
            /\ UNCHANGED <<message_queue, wmsg, dropped>>
       ELSE LET m == Head(message_queue)
                age == now - m.timestamp
            IN /\ message_queue' = Tail(message_queue)
               /\ IF TooOld(age)
                  THEN /\ dropped' = dropped \cup {m.id}
                       /\ wpc' = [wpc EXCEPT ![w] = "loop"]
                       /\ UNCHANGED wmsg
                  ELSE /\ wmsg' = [wmsg EXCEPT ![w] = [id |-> m.id, timestamp |-> m.timestamp, age |-> age]]
                       /\ wpc' = [wpc EXCEPT ![w] = "send"]
                       /\ UNCHANGED dropped
    /\ UNCHANGED <<config, stats, now, queue_thread, queue_running, next_id,
                   sent, lost, publish_result, enqueue_returned>>
    /\ UNCHANGED <<conn_vars, sub_vars, replay_vars, inbound_vars, snapshot, count_vars>>

\* client.publish raises: the except of the loop logs and sleeps, and the
\* next turn of the loop assigns message anew
SendRaises(w) ==
    /\ lost' = lost \cup {wmsg[w].id}
    /\ wmsg' = [wmsg EXCEPT ![w] = NoMessage]
    /\ wpc' = [wpc EXCEPT ![w] = "loop"]
    /\ UNCHANGED <<stats, sent, tally>>

\* if self.connected: client.publish(...), and the result's rc; raises is
\* the transport raising on the message (a topic or payload it rejects)
worker_send(w) ==
    /\ w \in Workers
    /\ wpc[w] = "send"
    /\ \E accepted \in BOOLEAN, raises \in BOOLEAN :
        IF connected /\ raises
        THEN SendRaises(w)
        ELSE IF connected /\ accepted /\ tr = "up"
        THEN /\ stats' = Bump("messages_sent")
             /\ tally' = [tally EXCEPT !.accepted = @ + 1]
             /\ sent' = Append(sent, [id |-> wmsg[w].id, age |-> wmsg[w].age])
             /\ wmsg' = [wmsg EXCEPT ![w] = NoMessage]
             /\ wpc' = [wpc EXCEPT ![w] = "loop"]
             /\ UNCHANGED lost
        ELSE /\ wpc' = [wpc EXCEPT ![w] = "put"]
             /\ UNCHANGED <<stats, sent, wmsg, lost, tally>>
    /\ UNCHANGED <<config, now, queue_thread, queue_running, message_queue,
                   next_id, dropped, publish_result, enqueue_returned, wload>>
    /\ UNCHANGED <<conn_vars, sub_vars, replay_vars, inbound_vars, snapshot>>

\* the same send when the transport accepts it, up to the read of
\* self.stats['messages_sent'] += 1: the statement reads the counter, adds
\* one and writes it back, with no lock held
worker_send_load(w) ==
    /\ w \in Workers
    /\ wpc[w] = "send"
    /\ connected
    /\ tr = "up"
    /\ tally' = [tally EXCEPT !.accepted = @ + 1]
    /\ sent' = Append(sent, [id |-> wmsg[w].id, age |-> wmsg[w].age])
    /\ wmsg' = [wmsg EXCEPT ![w] = NoMessage]
    /\ wload' = [wload EXCEPT ![w] = stats.messages_sent]
    /\ wpc' = [wpc EXCEPT ![w] = "count"]
    /\ UNCHANGED <<config, stats, now, queue_thread, queue_running, message_queue,
                   next_id, dropped, lost, publish_result, enqueue_returned>>
    /\ UNCHANGED <<conn_vars, sub_vars, replay_vars, inbound_vars, snapshot>>

\* the write of that statement: the value read, plus one
worker_send_store(w) ==
    /\ w \in Workers
    /\ wpc[w] = "count"
    /\ stats' = [stats EXCEPT !.messages_sent = wload[w] + 1]
    /\ wload' = [wload EXCEPT ![w] = 0]
    /\ wpc' = [wpc EXCEPT ![w] = "loop"]
    /\ UNCHANGED <<config, now, queue_thread, queue_running, tally>>
    /\ UNCHANGED <<conn_vars, queue_vars, sub_vars, replay_vars, inbound_vars, snapshot>>

\* message_queue.put(message) waits while the queue is full; then sleep(1)
worker_put(w) ==
    /\ w \in Workers
    /\ wpc[w] = "put"
    /\ ~Full(message_queue)
    /\ message_queue' = PutBack(message_queue, wmsg[w])
    /\ wmsg' = [wmsg EXCEPT ![w] = NoMessage]
    /\ wpc' = [wpc EXCEPT ![w] = "loop"]
    /\ UNCHANGED <<config, stats, now, queue_thread, queue_running, next_id,
                   sent, dropped, lost, publish_result, enqueue_returned>>
    /\ UNCHANGED <<conn_vars, sub_vars, replay_vars, inbound_vars, snapshot, count_vars>>

\* ---------------------------------------------- subscribe, unsubscribe
\* topics and patterns are strings, here sequences of characters
Patterns == {<<"a">>, <<"b">>, <<"a", "/", "+">>, <<"#">>}
QoSLevels == {0, 2}
Callbacks == {"cb1"}

\* '+' in topic or '#' in topic
IsWildcard(topic) == \E i \in 1..Len(topic) : topic[i] \in {"+", "#"}

\* topic in self.subscriptions
InDict(d, topic) == \E i \in 1..Len(d) : d[i].topic = topic

\* self.subscriptions[topic] = subscription: a present key keeps its place
DictSet(d, s) ==
    IF InDict(d, s.topic)
    THEN [i \in 1..Len(d) |-> IF d[i].topic = s.topic THEN s ELSE d[i]]
    ELSE Append(d, s)

Without(seq, topic) == SelectSeq(seq, LAMBDA e : e.topic # topic)

\* subscribe(): the store, then client.subscribe when connected; raises is
\* the transport raising, which the except branch counts; accepted is
\* whether it returns MQTT_ERR_SUCCESS. Its result is recorded in
\* subscribe_result when the call is watched.
subscribe_call(watched) ==
    /\ n_subscribes < MaxSubs
    /\ n_subscribes' = n_subscribes + 1
    /\ \E topic \in Patterns, qos \in QoSLevels, callback \in Callbacks :
        /\ IF IsWildcard(topic)
           THEN /\ wildcard_callbacks' = Append(wildcard_callbacks, [topic |-> topic, callback |-> callback])
                /\ registered' = Append(registered, topic)
                /\ UNCHANGED subscriptions
           ELSE /\ subscriptions' = DictSet(subscriptions, [topic |-> topic, qos |-> qos, callback |-> callback])
                /\ registered' = IF InDict(subscriptions, topic) THEN registered ELSE Append(registered, topic)
                /\ UNCHANGED wildcard_callbacks
        /\ unsubscribe_result' = IF unsubscribe_result.topic = topic
                                 THEN NoUnsubscribe
                                 ELSE unsubscribe_result
        /\ \E raises \in BOOLEAN, accepted \in BOOLEAN :
            IF connected /\ raises
            THEN /\ stats.errors < MaxErrors
                 /\ stats' = Bump("errors")
                 /\ subscribe_result' =
                        IF watched
                        THEN [called |-> TRUE, connected |-> TRUE,
                              value |-> FALSE, issued |-> TRUE,
                              topic |-> topic, qos |-> qos]
                        ELSE subscribe_result
            ELSE /\ UNCHANGED stats
                 /\ subscribe_result' =
                        IF watched
                        THEN [called |-> TRUE, connected |-> connected,
                              value |-> ~connected \/ accepted,
                              issued |-> connected,
                              topic |-> topic, qos |-> qos]
                        ELSE subscribe_result
    /\ UNCHANGED <<config, now>>
    /\ UNCHANGED <<conn_vars, queue_vars, worker_vars, replay_vars, inbound_vars, snapshot, count_vars>>

subscribe == subscribe_call(FALSE)

\* the same call with what it did and returned recorded
subscribe_watched == subscribe_call(TRUE)

\* unsubscribe(): both stores, then client.unsubscribe when connected;
\* raises is the transport raising, which the except branch logs; accepted
\* is whether it returns MQTT_ERR_SUCCESS. Its result is recorded in
\* unsubscribe_result when the call is watched.
unsubscribe_call(watched) ==
    /\ \E topic \in Patterns, raises \in BOOLEAN, accepted \in BOOLEAN :
        /\ subscriptions' = Without(subscriptions, topic)
        /\ wildcard_callbacks' = Without(wildcard_callbacks, topic)
        /\ registered' = SelectSeq(registered, LAMBDA t : t # topic)
        /\ unsubscribe_result' =
              IF watched
              THEN [called |-> TRUE, topic |-> topic,
                    absent |-> ~InDict(subscriptions, topic) /\ ~InDict(wildcard_callbacks, topic),
                    connected |-> connected,
                    value |-> IF connected THEN ~raises /\ accepted ELSE TRUE,
                    issued |-> connected]
              ELSE unsubscribe_result
    /\ UNCHANGED <<config, stats, now, n_subscribes, subscribe_result>>
    /\ UNCHANGED <<conn_vars, queue_vars, worker_vars, replay_vars, inbound_vars, snapshot, count_vars>>

unsubscribe == unsubscribe_call(FALSE)

\* the same call with what it did and returned recorded
unsubscribe_watched == unsubscribe_call(TRUE)

\* ------------------------------------------------------- _topic_matches
\* str.split('/'): the levels between the separators, at least one level
RECURSIVE Split(_)
Split(str) ==
    IF \A i \in 1..Len(str) : str[i] # "/"
    THEN <<str>>
    ELSE LET i == CHOOSE k \in 1..Len(str) :
                    str[k] = "/" /\ \A j \in 1..(k - 1) : str[j] # "/"
         IN <<SubSeq(str, 1, i - 1)>> \o Split(SubSeq(str, i + 1, Len(str)))

\* the loop without the comparison of the two lengths after it
RECURSIVE MatchFromNoLength(_, _, _)
MatchFromNoLength(topic_parts, pattern_parts, i) ==
    IF i > Len(pattern_parts) THEN TRUE
    ELSE IF pattern_parts[i] = <<"#">> THEN TRUE
    ELSE IF i > Len(topic_parts) THEN FALSE
    ELSE IF pattern_parts[i] # <<"+">> /\ pattern_parts[i] # topic_parts[i] THEN FALSE
    ELSE MatchFromNoLength(topic_parts, pattern_parts, i + 1)

\* for i, pattern_part in enumerate(pattern_parts), from index i on, and the
\* return after the loop
RECURSIVE MatchFrom(_, _, _)
MatchFrom(topic_parts, pattern_parts, i) ==
    IF i > Len(pattern_parts) THEN Len(topic_parts) = Len(pattern_parts)
    ELSE IF pattern_parts[i] = <<"#">> THEN TRUE
    ELSE IF i > Len(topic_parts) THEN FALSE
    ELSE IF pattern_parts[i] # <<"+">> /\ pattern_parts[i] # topic_parts[i] THEN FALSE
    ELSE MatchFrom(topic_parts, pattern_parts, i + 1)

\* the matcher without its test of '#' before the last level
_topic_matches_unchecked(topic, pattern) ==
    MatchFrom(Split(topic), Split(pattern), 1)

\* _topic_matches(topic, pattern)
_topic_matches(topic, pattern) ==
    LET topic_parts == Split(topic)
        pattern_parts == Split(pattern)
    IN IF \E i \in 1..(Len(pattern_parts) - 1) : pattern_parts[i] = <<"#">>
       THEN FALSE
       ELSE MatchFrom(topic_parts, pattern_parts, 1)

\* the strings _topic_matches is called on: levels joined by '/'
TopicLevels == {<<>>, <<"a">>, <<"b">>}
PatternLevels == TopicLevels \cup {<<"+">>, <<"#">>}

LevelLists(levels, n) == UNION {[1..k -> levels] : k \in 1..n}

RECURSIVE Join(_)
Join(levels) ==
    IF Len(levels) = 1
    THEN levels[1]
    ELSE levels[1] \o <<"/">> \o Join(Tail(levels))

\* a call _topic_matches(matched.topic, matched.pattern)
match_call ==
    /\ ~matched.called
    /\ matched' = [matched EXCEPT !.called = TRUE,
                                  !.result = _topic_matches(matched.topic, matched.pattern)]
    /\ UNCHANGED <<config, stats, now, inbound>>
    /\ UNCHANGED <<conn_vars, queue_vars, worker_vars, sub_vars, replay_vars, snapshot, count_vars>>

\* ----------------------------------------------------------- _on_message
\* the topics of the inbound messages
InboundTopics == {<<"a">>, <<"a", "/", "b">>}

\* if topic in self.subscriptions: the callback of that entry, if it has one
ExactCalls(topic) ==
    LET hits == SelectSeq(subscriptions, LAMBDA e : e.topic = topic /\ e.callback # "none")
    IN [i \in 1..Len(hits) |-> [pattern |-> hits[i].topic, callback |-> hits[i].callback]]

\* a walk of the wildcard list from its newest entry to its oldest
WildcardCallsNewestFirst(topic) ==
    LET hits == SelectSeq(wildcard_callbacks, LAMBDA e : _topic_matches(topic, e.topic))
    IN [i \in 1..Len(hits) |-> [pattern |-> hits[Len(hits) + 1 - i].topic,
                                callback |-> hits[Len(hits) + 1 - i].callback]]

\* for pattern, callback in self.wildcard_callbacks: those that match
WildcardCalls(topic) ==
    LET hits == SelectSeq(wildcard_callbacks, LAMBDA e : _topic_matches(topic, e.topic))
    IN [i \in 1..Len(hits) |-> [pattern |-> hits[i].topic, callback |-> hits[i].callback]]

\* a dispatch that the first raising callback ends
InvokeUntilRaise(calls, raising) ==
    LET first == IF raising = {} THEN Len(calls)
                 ELSE CHOOSE i \in raising : \A j \in raising : i <= j
    IN [i \in 1..first |-> [pattern |-> calls[i].pattern,
                            callback |-> calls[i].callback,
                            raised |-> i \in raising]]

\* every callback is called inside its own try/except, which logs: the
\* calls made, with whether each raised
Invoke(calls, raising) ==
    [i \in 1..Len(calls) |-> [pattern |-> calls[i].pattern,
                              callback |-> calls[i].callback,
                              raised |-> i \in raising]]

\* the payloads of inbound messages: "json" is text that json.loads parses,
\* "text" is text on which it raises JSONDecodeError, "binary" is bytes that
\* are not valid UTF-8 (decode raises), "deep" is text on which json.loads
\* raises another exception (RecursionError on deeply nested brackets)
PayloadKinds == {"json", "text", "binary", "deep"}

\* _on_message on the network thread, for a payload of one of the kinds.
\* An exception of decode or json.loads other than JSONDecodeError goes to
\* the outer except, which counts it; raising are the calls whose callback
\* raises. inbound.payload is what the callbacks were given.
_on_message_of(kinds) ==
    /\ net = "idle"
    /\ tr = "up"
    /\ inbound.n < MaxInbound
    /\ \E topic \in InboundTopics, kind \in kinds :
        LET before == inbound.raised_before \/ \E i \in 1..Len(inbound.calls) : inbound.calls[i].raised
        IN IF kind = "binary"
           THEN /\ stats.errors < MaxErrors
                /\ stats' = Bump("errors")
                /\ inbound' = [n |-> inbound.n + 1, topic |-> topic, decoded |-> FALSE,
                               payload |-> "none", calls |-> <<>>, escaped |-> FALSE,
                               raised_before |-> before]
           ELSE IF kind = "deep"
           THEN /\ stats.errors < MaxErrors
                /\ stats' = [stats EXCEPT !.messages_received = @ + 1, !.errors = @ + 1]
                /\ inbound' = [n |-> inbound.n + 1, topic |-> topic, decoded |-> TRUE,
                               payload |-> "none", calls |-> <<>>, escaped |-> FALSE,
                               raised_before |-> before]
           ELSE LET calls == ExactCalls(topic) \o WildcardCalls(topic)
                IN \E raising \in SUBSET (1..Len(calls)) :
                     /\ stats' = Bump("messages_received")
                     /\ inbound' = [n |-> inbound.n + 1, topic |-> topic, decoded |-> TRUE,
                                    payload |-> IF kind = "json" THEN "parsed" ELSE "text",
                                    calls |-> Invoke(calls, raising), escaped |-> FALSE,
                                    raised_before |-> before]
    /\ UNCHANGED <<config, now, matched>>
    /\ UNCHANGED <<conn_vars, queue_vars, worker_vars, sub_vars, replay_vars, snapshot, count_vars>>

\* inbound messages whose payload is JSON text or is not valid UTF-8
_on_message == _on_message_of({"json", "binary"})

\* inbound messages with a payload of any kind
_on_message_any == _on_message_of(PayloadKinds)

\* ------------------------------------------------------------ get_stats
StatKeys == {"messages_sent", "messages_received", "messages_queued",
             "reconnect_count", "errors"}

\* the entries of the dict display {**self.stats, 'queue_size': qsize()}
StatsDict ==
    [k \in StatKeys \cup {"queue_size"} |->
        IF k = "queue_size" THEN Len(message_queue) ELSE stats[k]]

\* a get_stats() that hands out self.stats itself
LiveStats == [alias |-> TRUE, value |-> StatsDict]

\* the dict display builds a new dict on every call
FreshStats == [alias |-> FALSE, value |-> StatsDict]

\* get_stats()
get_stats ==
    /\ snapshot' = [called |-> TRUE, alias |-> FreshStats.alias, modified |-> FALSE,
                    value |-> FreshStats.value]
    /\ UNCHANGED <<config, stats, now>>
    /\ UNCHANGED <<conn_vars, queue_vars, worker_vars, sub_vars, replay_vars, inbound_vars, count_vars>>

\* the caller of get_stats() assigns to a key of the dict it was given; the
\* assignment reaches self.stats only if that dict is self.stats
caller_modifies ==
    /\ snapshot.called
    /\ ~snapshot.modified
    /\ \E k \in StatKeys \cup {"queue_size"} :
        /\ snapshot' = [snapshot EXCEPT !.modified = TRUE, !.value[k] = @ + 1]
        /\ IF snapshot.alias /\ k \in StatKeys
           THEN stats' = [stats EXCEPT ![k] = snapshot.value[k] + 1]
           ELSE UNCHANGED stats
    /\ UNCHANGED <<config, now>>
    /\ UNCHANGED <<conn_vars, queue_vars, worker_vars, sub_vars, replay_vars, inbound_vars, count_vars>>

\* ------------------------------------------------------- specifications
Connect ==
    \/ connect_enter
    \/ connect_call
    \/ connect_wait_connected
    \/ connect_wait_timeout

Disconnect ==
    \/ disconnect_enter
    \/ disconnect_loop_stop
    \/ disconnect_finish

\* the broker accepts the CONNECT and the network thread runs _on_connect
Accept ==
    \/ broker_responds(TRUE)
    \/ _on_connect_accepted

\* the connection breaks and the network thread runs _on_disconnect
Loss ==
    \/ link_lost
    \/ _on_disconnect

\* a CONNECT that fails
Refusal ==
    \/ connect_raises
    \/ broker_responds(FALSE)
    \/ _on_connect_refused

Backoff ==
    \/ reconnect_sleep
    \/ reconnect_raises
    \/ reconnect_call

\* a worker thread on an empty queue
IdleWorker ==
    \/ \E w \in WorkerIds : worker_loop(w)
    \/ \E w \in WorkerIds : worker_get(w)

Worker ==
    \/ IdleWorker
    \/ \E w \in WorkerIds : worker_send(w)
    \/ \E w \in WorkerIds : worker_put(w)

Next ==
    \/ Connect
    \/ Disconnect
    \/ Accept
    \/ Loss
    \/ Refusal
    \/ Backoff
    \/ Tick
    \/ publish
    \/ subscribe
    \/ unsubscribe
    \/ _on_message
    \/ match_call
    \/ get_stats
    \/ caller_modifies
    \/ Worker

Spec == Init /\ [][Next]_vars

\* the connection and the reconnection loop, with nothing published and
\* nothing subscribed
NextConn ==
    \/ Connect
    \/ Disconnect
    \/ Accept
    \/ Loss
    \/ Refusal
    \/ Backoff
    \/ IdleWorker

SpecConn == Init /\ [][NextConn]_vars

\* every thread that has a step to take takes it in the end: the caller
\* inside connect() and disconnect(), the network thread, the workers.
\* Nothing obliges the caller to call, the broker to answer or the
\* connection to break.
FairSpecConn ==
    /\ SpecConn
    /\ WF_vars(connect_call \/ connect_wait_connected \/ connect_wait_timeout)
    /\ WF_vars(disconnect_loop_stop \/ disconnect_finish)
    /\ WF_vars(_on_connect_accepted \/ _on_connect_refused \/ _on_disconnect)
    /\ WF_vars(Backoff)
    /\ WF_vars(IdleWorker)

\* a client constructed with auto_reconnect = False
InitManual ==
    /\ Init
    /\ ~config.auto_reconnect

\* the message queue and its worker: auto_reconnect off, a broker that
\* accepts, connections that break, and a caller that connects again
NextQueue ==
    \/ Connect
    \/ Accept
    \/ Loss
    \/ Tick
    \/ publish
    \/ Worker

SpecQueue == InitManual /\ [][NextQueue]_vars

\* the same, for fewer messages
publish_few ==
    /\ next_id <= TtlMsgs
    /\ publish

NextTTL ==
    \/ Connect
    \/ Accept
    \/ Loss
    \/ Tick
    \/ publish_few
    \/ Worker

SpecTTL == InitManual /\ [][NextTTL]_vars

\* the queue and its worker with the clock standing still
NextCap ==
    \/ Connect
    \/ Accept
    \/ Loss
    \/ publish
    \/ Worker

SpecCap == InitManual /\ [][NextCap]_vars

\* subscribe on a connected client
subscribe_online == connected /\ subscribe

\* inbound messages on a connected client and their dispatch to the
\* subscriptions made on it
NextInbound ==
    \/ Connect
    \/ Accept
    \/ subscribe_online
    \/ _on_message

SpecInbound == InitManual /\ [][NextInbound]_vars

\* a client with auto_reconnect = False and room for one worker thread more
InitRestart ==
    /\ InitWithWorkers(MaxWorkers + 1)
    /\ matched = NoMatch
    /\ ~config.auto_reconnect

\* the worker threads of a client that loses its connection and connects
\* again while it publishes
NextRestart ==
    \/ Connect
    \/ Accept
    \/ Loss
    \/ publish
    \/ Worker

SpecRestart == InitRestart /\ [][NextRestart]_vars

\* a send attempt on a transport that accepts sends: while the session is
\* up the transport takes the message
worker_send_accepting(w) ==
    /\ worker_send(w)
    /\ (connected /\ tr = "up") => sent' # sent

\* a publish on that transport: while the session is up it is sent, not
\* queued
publish_accepting ==
    /\ publish
    /\ (connected /\ tr = "up") => UNCHANGED message_queue

WorkerAccepting ==
    \/ IdleWorker
    \/ \E w \in WorkerIds : worker_send_accepting(w)
    \/ \E w \in WorkerIds : worker_put(w)

\* messages published before and after connects, on a transport that
\* accepts sends; the worker threads are scheduled fairly
NextDrain ==
    \/ Connect
    \/ Accept
    \/ Loss
    \/ publish_accepting
    \/ WorkerAccepting

FairSpecDrain ==
    /\ InitManual
    /\ [][NextDrain]_vars
    /\ WF_vars(WorkerAccepting)

\* connects, disconnects and publishes; the worker threads are scheduled
\* fairly and a disconnect() that was called runs on to its return
NextStop ==
    \/ Connect
    \/ Disconnect
    \/ Accept
    \/ publish
    \/ Worker

FairSpecStop ==
    /\ InitManual
    /\ [][NextStop]_vars
    /\ WF_vars(Worker)
    /\ WF_vars(Disconnect)

\* get_stats on a client that connects and publishes, and what its caller
\* does with the dict
NextStats ==
    \/ Connect
    \/ Accept
    \/ publish
    \/ get_stats
    \/ caller_modifies

SpecStats == InitManual /\ [][NextStats]_vars

\* inbound messages with payloads of every kind on a connected client
NextPayload ==
    \/ Connect
    \/ Accept
    \/ subscribe_online
    \/ _on_message_any

SpecPayload == InitManual /\ [][NextPayload]_vars

\* subscribe before and after a connect, with what each call returned and
\* whether it reached the transport
NextOffline ==
    \/ Connect
    \/ Accept
    \/ subscribe_watched

SpecOffline == InitManual /\ [][NextOffline]_vars

\* an unsubscribe whose pattern is then followed: no other unsubscribe until
\* that pattern is subscribed again
unsubscribe_once == ~unsubscribe_result.called /\ unsubscribe_watched

\* subscribe and unsubscribe before and after a connect, the replay of the
\* connect and the dispatch of inbound messages
NextUnsub ==
    \/ Connect
    \/ Accept
    \/ subscribe
    \/ unsubscribe_once
    \/ _on_message

SpecUnsub == InitManual /\ [][NextUnsub]_vars

\* _topic_matches on every topic and pattern within the bounds
InitMatch ==
    /\ InitClient
    /\ ~config.auto_reconnect
    /\ \E t \in LevelLists(TopicLevels, MaxLevels + 1), p \in LevelLists(PatternLevels, MaxLevels) :
          matched = [topic |-> Join(t), pattern |-> Join(p),
                     called |-> FALSE, result |-> FALSE]

SpecMatch == InitMatch /\ [][match_call]_vars

\* the worker with its += 1 on the counter in two steps
WorkerCounting ==
    \/ Worker
    \/ \E w \in WorkerIds : worker_send_load(w)
    \/ \E w \in WorkerIds : worker_send_store(w)

\* publish() callers and the worker on a client that connects
NextCounters ==
    \/ Connect
    \/ Accept
    \/ publish
    \/ WorkerCounting

SpecCounters == InitManual /\ [][NextCounters]_vars

\* the first subscribe call of the client
subscribe_first == n_subscribes = 0 /\ subscribe

\* a client with a registration and a queued message that is connected,
\* disconnected, cut off and connected again
NextPersist ==
    \/ Connect
    \/ Disconnect
    \/ Accept
    \/ Loss
    \/ publish_few
    \/ subscribe_first
    \/ Worker

SpecPersist == InitManual /\ [][NextPersist]_vars

\* the subscription stores and their replay: auto_reconnect off, a broker
\* that accepts, and a caller that disconnects and connects again
NextSub ==
    \/ Connect
    \/ Disconnect
    \/ Accept
    \/ subscribe
    \/ unsubscribe
    \/ IdleWorker

SpecSub == InitManual /\ [][NextSub]_vars

\* ---------------------------------------------------------------- claims
\* the ids of the messages in the queue, and of those a worker holds
QueueIds == {message_queue[i].id : i \in 1..Len(message_queue)}
HeldIds == {wmsg[w].id : w \in {v \in Workers : wpc[v] \in {"send", "put"}}}
SentIds == {sent[i].id : i \in 1..Len(sent)}

\* the caller can tell the full queue from an enqueue: publish() returned a
\* value it never returned after an enqueue
QueueFullIndicated ==
    /\ publish_result.outcome = "full"
    /\ publish_result.value \notin enqueue_returned

\* C1: a publish() of a convertible payload made while not connected calls
\* no transport send and, when it returns, either has put the message in the
\* queue or has given the caller a QueueFull indication.
C1_QueuedOrReported ==
    (publish_result.called /\ ~publish_result.connected /\ publish_result.outcome # "error")
        => /\ publish_result.outcome # "sent"
           /\ publish_result.outcome = "queued" \/ QueueFullIndicated

\* C2: the worker's successful sends follow the enqueue order: it never
\* sends a message enqueued later before one enqueued earlier that it sends
\* afterwards.
C2_SendsInEnqueueOrder ==
    \A i, j \in 1..Len(sent) : i < j => sent[i].id < sent[j].id

\* C3 as stated: a message the worker takes at age >= message_ttl is never
\* handed to the transport; it is dropped and not enqueued again.
C3_NeverSentAtTtl ==
    /\ \A i \in 1..Len(sent) : sent[i].age < config.message_timeout
    /\ dropped \cap (QueueIds \cup HeldIds \cup SentIds) = {}

\* C3 amended: a message the worker takes at age > message_ttl is never
\* handed to the transport; it is dropped and not enqueued again. (Taken at
\* age = message_ttl it is still sent.)
C3_NeverSentPastTtl ==
    /\ \A i \in 1..Len(sent) : sent[i].age <= config.message_timeout
    /\ \A w \in Workers : wpc[w] \in {"send", "put"} => wmsg[w].age <= config.message_timeout
    /\ dropped \cap (QueueIds \cup HeldIds \cup SentIds) = {}

\* the worker took a message past its ttl and dropped it
C3_Witness ==
    /\ dropped # {}
    /\ message_queue = <<>>
    /\ sent = <<>>

\* the registration order with the exact topics first
ExactFirst(reg) ==
    SelectSeq(reg, LAMBDA t : ~IsWildcard(t)) \o SelectSeq(reg, IsWildcard)

Topics(requests) == [i \in 1..Len(requests) |-> requests[i].topic]

InBackoff == net \in {"reconnect_loop", "reconnect_try"}

\* C5: a disconnect() called during the backoff loop returns, with the
\* state Disconnected.
C5_DisconnectEndsBackoff ==
    (cpc = "disconnect_loop_stop" /\ InBackoff) ~> (cpc = "idle" /\ state = "disconnected")

\* C6: when connect() returns false the state is Error.
C6_FailedConnectIsError ==
    [][(/\ cpc \in {"connect_call", "connect_wait"}
        /\ cpc' = "idle"
        /\ ~(cpc = "connect_wait" /\ connected))
       => state' = "error"]_vars

\* C7: once the broker has accepted a reconnect attempt, the backoff loop
\* makes no further attempt.
C7_NoAttemptAfterAccept ==
    [][(net = "reconnect_try" /\ tr = "acked_ok") => net' = "reconnect_try"]_vars

\* C8: after k >= 1 reconnect attempts of an episode, reconnect_count has
\* grown by k.
C8_CountPerAttempt ==
    (InBackoff /\ attempts >= 1 /\ attempts < MaxWaits)
        => stats.reconnect_count - count_at_entry = attempts

\* C9: the first wait of an episode is reconnect_delay, and each next wait
\* is double the one before, capped at max_reconnect_delay.
C9_WaitsDouble ==
    /\ waits # <<>> => waits[1] = config.reconnect_delay
    /\ \A i \in 1..(Len(waits) - 1) :
        waits[i + 1] = Min(2 * waits[i], config.max_reconnect_delay)

\* C10: messages_queued counts the successful enqueues, a publish() that
\* finds the queue full leaves the queue and the counter as they are, and
\* its caller gets a QueueFull indication.
C10_FullQueueReported ==
    /\ stats.messages_queued = Cardinality(QueueIds \cup HeldIds \cup SentIds \cup dropped \cup lost)
    /\ publish_result.outcome = "full" => QueueFullIndicated

\* C11: under every interleaving of publish callers and the worker, the
\* worker's re-insertions included, the queue holds at most queue_size
\* messages.
C11_QueueWithinCapacity ==
    Len(message_queue) <= config.queue_size

\* the queue is full while a worker waits to put a message back
C11_Witness ==
    /\ Len(message_queue) = config.queue_size
    /\ \E w \in Workers : wpc[w] = "put"

\* C12: publish() returns true exactly when the transport accepted the
\* message in that call while the client was connected, and then
\* messages_sent grows by one and nothing is enqueued; enqueued, queue full
\* or error, it returns false.
C12_TrueIffSentNow ==
    [][next_id' # next_id =>
        /\ publish_result'.value <=> publish_result'.outcome = "sent"
        /\ publish_result'.outcome \in {"queued", "full", "error"} => ~publish_result'.value
        /\ publish_result'.value =>
            /\ connected
            /\ tr = "up"
            /\ stats'.messages_sent = stats.messages_sent + 1
            /\ stats'.messages_queued = stats.messages_queued
            /\ message_queue' = message_queue]_vars

\* a publish() returned true after an earlier one had enqueued
C12_Witness ==
    /\ publish_result.value
    /\ publish_result.outcome = "sent"
    /\ stats.messages_sent >= 1
    /\ enqueue_returned = {FALSE}

\* C13: whatever the state disconnect() is called in, when it returns the
\* state is Disconnected, is_connected() is false and the queue worker has
\* been told to stop (queue_running is false).
C13_DisconnectedOnReturn ==
    [][(cpc = "disconnect_finish" /\ cpc' = "idle") =>
        /\ state' = "disconnected"
        /\ ~connected'
        /\ ~queue_running']_vars

\* disconnect() has returned from a connected client: the network thread
\* is stopped and the worker it told to stop is still alive
C13_Witness ==
    /\ cpc = "idle"
    /\ net = "stopped"
    /\ tr = "closed"
    /\ state = "disconnected"
    /\ ~connected
    /\ ~queue_running
    /\ \E w \in Workers : wpc[w] # "none"

\* C14: connect() called while the client is connected returns at once: the
\* caller does not go on to the transport connect, the state does not become
\* Connecting and no new CONNECT is sent.
C14_ConnectWhenConnectedIsNoOp ==
    [][(cpc = "idle" /\ connected) =>
        /\ cpc' \in {"idle", "disconnect_loop_stop"}
        /\ state' # "connecting"
        /\ tr' = "connecting" => tr = "connecting"]_vars

\* the client is connected and its caller is free to call connect() again
C14_Witness ==
    /\ cpc = "idle"
    /\ connected
    /\ state = "connected"
    /\ tr = "up"
    /\ queue_running

\* the reference matcher on levels: a literal level equals the topic level,
\* '+' takes one topic level, a final '#' takes all that remain, and
\* without '#' both run out together
RECURSIVE ReferenceMatch(_, _)
ReferenceMatch(topic_levels, pattern_levels) ==
    IF pattern_levels = <<>> THEN topic_levels = <<>>
    ELSE IF Head(pattern_levels) = <<"#">> THEN Tail(pattern_levels) = <<>>
    ELSE IF topic_levels = <<>> THEN FALSE
    ELSE /\ Head(pattern_levels) = <<"+">> \/ Head(pattern_levels) = Head(topic_levels)
         /\ ReferenceMatch(Tail(topic_levels), Tail(pattern_levels))

\* '#' occurs as a level other than the last
HashBeforeLast(pattern) ==
    LET levels == Split(pattern)
    IN \E i \in 1..(Len(levels) - 1) : levels[i] = <<"#">>

\* the cases the specification names, with a and b for its level names
MatchExamples ==
    LET t == matched.topic
        p == matched.pattern
        r == matched.result
    IN /\ (p = <<"a", "/", "b", "/", "#">> /\ t = <<"a", "/", "b">>) => r
       /\ (p = <<"a", "/", "b", "/", "#">> /\ t = <<"a", "/", "b", "/", "a">>) => r
       /\ (p = <<"a", "/", "b", "/", "#">> /\ t = <<"a", "/", "b", "/", "a", "/", "b">>) => r
       /\ (p = <<"+">> /\ t = <<"a">>) => r
       /\ (p = <<"+">> /\ t = <<"a", "/", "b">>) => ~r
       /\ (p = <<"a", "/", "+">> /\ t = <<"a", "/", "b", "/", "a">>) => ~r
       /\ (p = <<"a", "/", "+", "/", "a">> /\ t = <<"a", "/", "b", "/", "a">>) => r
       /\ (p = <<"a", "/", "#">> /\ t = <<"a">>) => r
       /\ p = <<"#">> => r

\* C16: on every topic, and every pattern with no '#' level or '#' only as
\* its last level, _topic_matches gives what the reference matcher gives;
\* among them the cases the specification names.
C16_MatchesReference ==
    (matched.called /\ ~HashBeforeLast(matched.pattern))
        => /\ matched.result = ReferenceMatch(Split(matched.topic), Split(matched.pattern))
           /\ MatchExamples

\* a/b/# was matched against a/b/a/b
C16_Witness ==
    /\ matched.called
    /\ matched.pattern = <<"a", "/", "b", "/", "#">>
    /\ matched.topic = <<"a", "/", "b", "/", "a", "/", "b">>
    /\ matched.result

\* C17: a pattern with '#' as a level other than the last matches no topic.
C17_HashBeforeLastMatchesNothing ==
    (matched.called /\ HashBeforeLast(matched.pattern)) => ~matched.result

\* #/a was matched against a
C17_Witness ==
    /\ matched.called
    /\ matched.pattern = <<"#", "/", "a">>
    /\ matched.topic = <<"a">>
    /\ ~matched.result

\* the number of calls in a dispatch made to the given callback for the
\* given pattern
CallsTo(calls, pattern, callback) ==
    Cardinality({i \in 1..Len(calls) : calls[i].pattern = pattern /\ calls[i].callback = callback})

MatchingPatterns(topic) ==
    LET exact == SelectSeq(subscriptions, LAMBDA e : e.topic = topic /\ e.callback # "none")
        wild == SelectSeq(wildcard_callbacks,
                          LAMBDA e : ReferenceMatch(Split(topic), Split(e.topic)))
    IN [i \in 1..Len(exact) |-> exact[i].topic] \o [i \in 1..Len(wild) |-> wild[i].topic]

\* C18: when callbacks raise during the dispatch of a message, the callback
\* of every registration matching the message is still invoked, nothing
\* escapes the handler, and the messages that follow are dispatched in the
\* same way.
C18_RaisingCallbackIsolated ==
    [][(inbound'.n # inbound.n /\ inbound'.decoded)
        => /\ [i \in 1..Len(inbound'.calls) |-> inbound'.calls[i].pattern]
                 = MatchingPatterns(inbound'.topic)
           /\ ~inbound'.escaped]_vars

\* the first of two callbacks of a message raised and the second was
\* invoked, after an earlier message whose callback raised
C18_Witness ==
    /\ inbound.decoded
    /\ inbound.raised_before
    /\ Len(inbound.calls) = 2
    /\ inbound.calls[1].raised
    /\ ~inbound.calls[2].raised

\* the number of callbacks of a dispatch that raised
RaisedCount(calls) == Cardinality({i \in 1..Len(calls) : calls[i].raised})

\* C19: the dispatch of an inbound message adds to the errors counter one
\* for every callback that raised.
C19_ErrorsCountRaisingCallbacks ==
    [][(inbound'.n # inbound.n /\ inbound'.decoded)
        => stats'.errors = stats.errors + RaisedCount(inbound'.calls)]_vars

\* the topics of a sequence of registered topics or of requests
TopicSet(seq, topic_of(_)) == {topic_of(seq[i]) : i \in 1..Len(seq)}

\* C20: a subscribe made while not connected returns true and sends no
\* request, and the replay of the connect that follows requests every
\* topic registered by then (a topic is left out only when its own request
\* is the one that raises); a subscribe made while connected sends its
\* request in the call.
C20_OfflineSubscribeReissuedOnConnect ==
    [][/\ (n_subscribes' # n_subscribes /\ ~connected)
            => /\ subscribe_result'.value
               /\ ~subscribe_result'.issued
               /\ registered' # <<>>
       /\ (n_subscribes' # n_subscribes /\ connected)
            => subscribe_result'.issued
       /\ (~connected /\ connected')
            => LET left_out == TopicSet(registered, LAMBDA t : t)
                                 \ TopicSet(replayed', LAMBDA r : r.topic)
               IN Cardinality(left_out) <= IF replay_raised' THEN 1 ELSE 0]_vars

\* a step of unsubscribe(), whose pattern is unsubscribe_result'.topic
UnsubscribeStep ==
    unsubscribe_result' # unsubscribe_result /\ unsubscribe_result'.called

\* C21: unsubscribe(pattern) leaves the pattern in neither store and every
\* other entry as it was; with the pattern absent it changes nothing and
\* returns true; until the pattern is subscribed again no inbound message
\* invokes a callback through it and no replay requests it.
C21_UnsubscribeRemoves ==
    [][/\ UnsubscribeStep
            => LET t == unsubscribe_result'.topic
               IN /\ subscriptions' = SelectSeq(subscriptions, LAMBDA e : e.topic # t)
                  /\ wildcard_callbacks' = SelectSeq(wildcard_callbacks, LAMBDA e : e.topic # t)
                  /\ ~InDict(subscriptions', t) /\ ~InDict(wildcard_callbacks', t)
       /\ (UnsubscribeStep /\ unsubscribe_result'.absent)
            => /\ unsubscribe_result'.value
               /\ UNCHANGED <<subscriptions, wildcard_callbacks>>
       /\ (inbound'.n # inbound.n /\ unsubscribe_result.called)
            => \A i \in 1..Len(inbound'.calls) :
                 inbound'.calls[i].pattern # unsubscribe_result.topic
       /\ (~connected /\ connected' /\ unsubscribe_result.called)
            => \A j \in 1..Len(replayed') :
                 replayed'[j].topic # unsubscribe_result.topic]_vars

\* C22: every inbound message on a topic that registrations match is given
\* to the callback of each of them, with the parsed payload or, when the
\* payload does not decode or parse, with the raw one.
C22_DeliveredParsedOrRaw ==
    [][(inbound'.n # inbound.n /\ MatchingPatterns(inbound'.topic) # <<>>)
        => /\ [i \in 1..Len(inbound'.calls) |-> inbound'.calls[i].pattern]
                 = MatchingPatterns(inbound'.topic)
           /\ inbound'.payload \in {"parsed", "text"}]_vars

\* C23: when a request of the replay fails, the errors counter grows by
\* one, every other registered topic is still requested and the queue
\* worker is started.
C23_ReplayFailureCounted ==
    [][(~connected /\ connected' /\ replay_raised')
        => /\ stats'.errors = stats.errors + 1
           /\ Cardinality(TopicSet(registered, LAMBDA t : t)
                            \ TopicSet(replayed', LAMBDA r : r.topic)) <= 1
           /\ queue_running']_vars

\* C24: get_stats() returns the five counters as they are and queue_size
\* equal to the length of the queue, and changes nothing in the client; an
\* assignment to the returned dict leaves the client's counters as they are.
C24_StatsSnapshot ==
    [][/\ (snapshot' # snapshot /\ ~snapshot'.modified)
            => /\ \A k \in StatKeys : snapshot'.value[k] = stats[k]
               /\ DOMAIN snapshot'.value = StatKeys \cup {"queue_size"}
               /\ snapshot'.value["queue_size"] = Len(message_queue)
               /\ UNCHANGED <<config, stats, conn_vars, queue_vars, worker_vars,
                              sub_vars, replay_vars, inbound_vars>>
       /\ (snapshot'.modified /\ ~snapshot.modified)
            => UNCHANGED <<stats, message_queue>>]_vars

\* the caller changed a counter in a dict returned while a message was
\* queued, and the client's counter is as it was
C24_Witness ==
    /\ snapshot.modified
    /\ snapshot.value["queue_size"] = 1
    /\ snapshot.value["messages_queued"] = 2
    /\ stats.messages_queued = 1
    /\ Len(message_queue) = 1

\* C25: in every reachable state the connected flag is true exactly when
\* the state is Connected.
C25_ConnectedIffStateConnected ==
    connected <=> state = "connected"

\* the worker threads that are alive
AliveWorkers == {w \in Workers : wpc[w] # "none"}

\* C26: at any time at most one queue-worker thread is alive.
C26_AtMostOneWorker ==
    Cardinality(AliveWorkers) <= 1

\* no message is in two of the places at once, nor twice in the queue or
\* among the sends
InOnePlace ==
    /\ QueueIds \cap HeldIds = {}
    /\ (QueueIds \cup HeldIds) \cap (SentIds \cup dropped) = {}
    /\ SentIds \cap dropped = {}
    /\ Cardinality(QueueIds) = Len(message_queue)
    /\ Cardinality(SentIds) = Len(sent)
    /\ Cardinality(HeldIds) = Cardinality({w \in Workers : wpc[w] \in {"send", "put"}})

\* C27: every message accepted into the queue is at all times in exactly
\* one place: waiting in the queue, held by a worker, sent once, or dropped
\* as too old.
C27_NoMessageLostOrSentTwice ==
    /\ InOnePlace
    /\ stats.messages_queued = Cardinality(QueueIds \cup HeldIds \cup SentIds \cup dropped)

\* the edges of the state diagram
StateEdges ==
    {<<"disconnected", "connecting">>, <<"error", "connecting">>,
     <<"connecting", "connected">>, <<"connecting", "error">>,
     <<"connected", "reconnecting">>, <<"reconnecting", "connected">>}
    \cup {<<s, "disconnected">> : s \in ConnectionState}

\* C28: the state changes only along the edges of the diagram: to
\* Connecting from Disconnected or Error, from Connecting to Connected or
\* Error, from Connected to Reconnecting, from Reconnecting to Connected,
\* and from any state to Disconnected.
C28_OnlyDiagramEdges ==
    [][state' # state => <<state, state'>> \in StateEdges]_vars

\* C29: when the client is connected from some moment on, with a transport
\* that accepts sends, then from some moment on the queue is empty and no
\* worker holds a message.
C29_QueueDrains ==
    <>[](connected /\ tr = "up") => <>[](message_queue = <<>> /\ HeldIds = {})

\* C30: after the queue worker is told to stop (queue_running cleared by
\* disconnect() or by an unexpected loss), the worker thread exits, also when
\* it holds a message to re-insert while the queue is full, unless the
\* caller connects again or the processor is started again first.
C30_WorkerExitsAfterStop ==
    (~queue_running /\ AliveWorkers # {})
        ~> \/ AliveWorkers = {}
           \/ queue_running
           \/ cpc \in {"connect_call", "connect_wait"}

\* the number of entries of a store registered under the pattern
EntriesFor(store, pattern) ==
    Cardinality({i \in 1..Len(store) : store[i].topic = pattern})

\* C31: after any sequence of subscribe and unsubscribe calls the registry
\* holds at most one entry per pattern string, in the dict of exact patterns
\* and in the list of wildcard patterns alike, and one inbound message
\* invokes at most one callback per registered pattern.
C31_OneEntryPerPattern ==
    \A pattern \in Patterns :
        /\ EntriesFor(subscriptions, pattern) + EntriesFor(wildcard_callbacks, pattern) <= 1
        /\ Cardinality({i \in 1..Len(inbound.calls) : inbound.calls[i].pattern = pattern}) <= 1

\* a step of connect(), disconnect(), of the transport or of one of the
\* connection callbacks, known by what it changes
ConnectionStep ==
    \/ cpc' # cpc
    \/ net' # net
    \/ tr' # tr
    \/ state' # state
    \/ connected' # connected
    \/ queue_running' # queue_running

C33_ReplayKeepsQoS ==
    (subscribe_result.called /\ ~subscribe_result.connected)
        => \A i \in 1..Len(replayed) :
              replayed[i].topic = subscribe_result.topic
                  => replayed[i].qos = subscribe_result.qos

\* C34: under any interleaving of publish() callers and the queue worker,
\* once no increment is under way messages_sent equals the number of sends
\* the transport accepted, immediate and drained, and messages_queued
\* equals the number of successful enqueues.
C34_NoLostCount ==
    (\A w \in Workers : wpc[w] # "count")
        => /\ stats.messages_sent = tally.accepted
           /\ stats.messages_queued = tally.enqueued

\* the steps in which a connection-level failure is handled: connect()
\* raising, the broker refusing, the connect wait timing out, and the loss
\* of an established connection
ConnectionFailure ==
    \/ connect_raises
    \/ _on_connect_refused
    \/ connect_wait_timeout
    \/ _on_disconnect

\* C35: every connection-level failure increases the errors counter by at
\* least one and changes the state to Error or Reconnecting.
C35_FailureCountedAndShown ==
    [][ConnectionFailure
        => /\ stats'.errors >= stats.errors + 1
           /\ state' \in {"error", "reconnecting"}]_vars

\* C36: a publish() called while connected whose send the transport rejects
\* enqueues the message exactly once, or gives the caller a QueueFull
\* indication when the queue is at capacity; messages_sent is unchanged and
\* publish() returns false.
C36_RejectedSendIsEnqueued ==
    [][(/\ next_id' # next_id
        /\ connected
        /\ publish_result'.outcome \in {"queued", "full"})
        => /\ \/ message_queue' = Append(message_queue, [id |-> next_id, timestamp |-> now])
              \/ /\ message_queue' = message_queue
                 /\ QueueFullIndicated'
           /\ stats'.messages_sent = stats.messages_sent
           /\ ~publish_result'.value]_vars

C38_DispatchOrder ==
    [][inbound'.n # inbound.n =>
        LET calls == inbound'.calls
            patterns == [i \in 1..Len(calls) |-> calls[i].pattern]
            wild == SelectSeq(patterns, IsWildcard)
            levels == Split(inbound'.topic)
        IN /\ inbound'.n = inbound.n + 1
           /\ net = "idle" /\ net' = "idle"
           /\ \A i \in 1..Len(calls) :
                 ~IsWildcard(patterns[i]) => i = 1 /\ patterns[i] = inbound'.topic
           /\ wild # <<>> =>
                 wild = SelectSeq(registered,
                                  LAMBDA t : /\ IsWildcard(t)
                                             /\ ReferenceMatch(levels, Split(t)))]_vars

\* the second message was dispatched to the callback of its exact entry and
\* then to a wildcard callback
C38_Witness ==
    /\ inbound.n = 2
    /\ Len(inbound.calls) = 2
    /\ inbound.calls[1].pattern = inbound.topic
    /\ IsWildcard(inbound.calls[2].pattern)

====
